---- MODULE Spec2Model ----
(***************************************************************************)
(* A model of the mangadex loader: the catalog client with its retry       *)
(* policy (makeRequest, retryRequest), the chapter lister                  *)
(* (GetChaptersByMangaID), the volume aggregator (groupChaptersByVolume,   *)
(* downloadChapterPages), the archive builder (compressVolumeToCBZ and    *)
(* the cbz package) and the orchestrator (DownloadManga).                  *)
(*                                                                         *)
(* Go strings are modelled as sequences of one-character strings, ordered  *)
(* by the byte values of Ord, so that formatting, path joining, extension  *)
(* extraction, normalisation and lexical sorting are computed, not assumed.*)
(***************************************************************************)
EXTENDS Integers, Sequences, FiniteSets, TLC

VARIABLES
  flags,          \* the flags of the get command
  cfg,            \* the Config the client was built from
  pc,             \* position of the run: "cmd" and "new" before DownloadManga, which is at
                  \* "list", "group", "compress", "done" or "failed"; "exit" and "panic"
                  \* when the command ended before it
  err,            \* the error DownloadManga returned ("" while none)
  offset,         \* GetChaptersByMangaID: offset of the next listing request
  allChapterIDs,  \* GetChaptersByMangaID: identifiers collected so far
  listReqs,       \* every listing request issued (the query parameters of its URL)
  listPages,      \* every listing response received, as the server sent it
  chapIdx,        \* groupChaptersByVolume: number of chapter IDs the loop has handled
  metas,          \* the metadata the server returned for the chapters handled so far
  fetches,        \* every request groupChaptersByVolume issued: metadata, at-home, image
  volumeDirs,     \* groupChaptersByVolume: volume label -> sequence of temp directories
  tmpDirs,        \* the temporary directories created by os.MkdirTemp, in creation order
  todo,           \* DownloadManga: keys of volumeDirs the range loop has not visited yet
  archives,       \* the archive files written to the output directory, in write order
  openFiles,      \* page files opened by compressVolumeToCBZ and not closed yet
  rq,             \* one call of makeRequest: its attempts, sleeps and result
  page,           \* a listing page handed to sort.SliceStable
  sorted          \* the page after sort.SliceStable ("none" before)

vars == <<flags, cfg, pc, err, offset, allChapterIDs, listReqs, listPages, chapIdx, metas, fetches,
          volumeDirs, tmpDirs, todo, archives, openFiles, rq, page, sorted>>

pipelineVars == <<pc, err, offset, allChapterIDs, listReqs, listPages, chapIdx, metas, fetches,
                  volumeDirs, tmpDirs, todo, archives, openFiles>>

-----------------------------------------------------------------------------
(* Bounds of the model.                                                    *)

\* retry counts explored for one request call: Config.Retries in 0..MaxRetries
MaxRetries == 3
\* items of one listing page in the lister's specification
MaxPageItems == 2
\* items of the page handed to the sort in the sort's specification
MaxSortItems == 3
\* pages of a chapter in the pipeline's specification
MaxPages == 2
\* a long chapter has 10^PadWidth - 1 .. 10^PadWidth - 1 + MaxLongExtra pages
MaxLongExtra == 1
\* an I/O failure is injected at one of the first MaxFailAt items of a loop, or at its last
MaxFailAt == 1

-----------------------------------------------------------------------------
(* Strings.                                                                *)

Digit == <<"0", "1", "2", "3", "4", "5", "6", "7", "8", "9">>

\* the byte value of each character the model uses
Ord ==
  [c \in {"-", ".", "/"} |-> CASE c = "-" -> 45 [] c = "." -> 46 [] c = "/" -> 47]
  @@ [c \in {Digit[i] : i \in 1..10} |-> 47 + (CHOOSE i \in 1..10 : Digit[i] = c)]
  @@ [c \in {"_"} |-> 95]
  @@ [c \in {"a", "b", "c", "d", "e", "g", "j", "l", "m", "n", "o", "p", "t", "u", "v", "x", "z"} |->
        CASE c = "a" -> 97  [] c = "b" -> 98  [] c = "c" -> 99  [] c = "d" -> 100
          [] c = "e" -> 101 [] c = "g" -> 103 [] c = "j" -> 106 [] c = "l" -> 108
          [] c = "m" -> 109 [] c = "n" -> 110 [] c = "o" -> 111 [] c = "p" -> 112
          [] c = "t" -> 116 [] c = "u" -> 117 [] c = "v" -> 118 [] c = "x" -> 120
          [] c = "z" -> 122]

\* Go's s < t on strings: byte-wise lexicographic, a proper prefix first
RECURSIVE LexLess(_, _)
LexLess(s, t) ==
  IF t = <<>> THEN FALSE
  ELSE IF s = <<>> THEN TRUE
  ELSE IF s[1] # t[1] THEN Ord[s[1]] < Ord[t[1]]
  ELSE LexLess(Tail(s), Tail(t))

\* the decimal digits of a natural number (fmt's %d)
RECURSIVE Digits(_)
Digits(n) ==
  IF n < 10 THEN <<Digit[n + 1]>>
  ELSE Append(Digits(n \div 10), Digit[(n % 10) + 1])

\* fmt's %0<w>d of a natural number: zero-padded to at least w digits, never cut
PadInt(w, n) ==
  LET d == Digits(n)
  IN  [i \in 1..(IF Len(d) < w THEN w - Len(d) ELSE 0) |-> "0"] \o d

\* sort.Strings on a set of names: ascending byte-wise lexicographic order
RECURSIVE SortStrings(_), SortBuckets(_, _)
SortStrings(S) ==
  IF S = {} THEN <<>>
  ELSE LET rest == S \ {<<>>}
       IN  (IF <<>> \in S THEN << <<>> >> ELSE <<>>) \o SortBuckets(rest, {s[1] : s \in rest})
SortBuckets(S, heads) ==
  IF heads = {} THEN <<>>
  ELSE LET c == CHOOSE h \in heads : \A g \in heads : Ord[h] <= Ord[g]
           tails == SortStrings({Tail(s) : s \in {t \in S : t[1] = c}})
       IN  [i \in 1..Len(tails) |-> <<c>> \o tails[i]] \o SortBuckets(S, heads \ {c})

\* helper to replace all runes in a string
stringReplaceAllRune(s, old, new) ==
  [i \in 1..Len(s) |-> IF s[i] = old THEN new ELSE s[i]]

\* filepath.Join of two clean, non-empty path elements
Join(dir, name) == dir \o <<"/">> \o name

RECURSIVE Concat(_)
Concat(ss) == IF ss = <<>> THEN <<>> ELSE Head(ss) \o Concat(Tail(ss))

-----------------------------------------------------------------------------
(* The catalog client: makeRequest and retryRequest.                       *)

StatusOK == 200
StatusTooManyRequests == 429
\* seconds slept after a rate-limit response, and between two retries
RateLimitCooldown == 5
RETRY_WAIT_TIME == 10

\* what one HttpClient.Do can come back with: a response with a status, or a transport error
\* (500 stands for every status that is neither 200 nor 429)
Outcomes ==
  {[err |-> FALSE, status |-> s] : s \in {StatusOK, StatusTooManyRequests, 500}}
  \cup {[err |-> TRUE, status |-> 0]}

RqIdle == [state |-> "idle", i |-> 0, attempts |-> <<>>, slept |-> <<>>, ret |-> "none", resp |-> 0]

\* the retry loop's test of one attempt: err == nil && resp.StatusCode == http.StatusOK
RetrySucceeded(o) == ~o.err /\ o.status = StatusOK

\* a retry loop that runs once more than asked
RetryLoopOffByOne(i, maxRetries) == i <= maxRetries

\* the retry loop's range: for i := range maxRetries
RetryLoopContinues(i, maxRetries) == i < maxRetries

\* makeRequest up to its return or its call of retryRequest
MakeRequest ==
  /\ rq.state = "idle"
  /\ \E o \in Outcomes :
       LET r == [rq EXCEPT !.attempts = <<o>>]
       IN  rq' = IF o.err THEN [r EXCEPT !.state = "returned", !.ret = "err"]
                 ELSE IF o.status # StatusOK
                   THEN IF o.status = StatusTooManyRequests
                          THEN [r EXCEPT !.state = "retrying", !.slept = <<RateLimitCooldown>>]
                          ELSE [r EXCEPT !.state = "returned", !.ret = "err"]
                 ELSE [r EXCEPT !.state = "returned", !.ret = "resp", !.resp = 1]
  /\ UNCHANGED <<flags, cfg, pipelineVars, page, sorted>>

\* one iteration of retryRequest's loop
RetryAttempt ==
  /\ rq.state = "retrying"
  /\ RetryLoopContinues(rq.i, cfg.Retries)
  /\ \E o \in Outcomes :
       LET r == [rq EXCEPT !.attempts = Append(@, o)]
       IN  rq' = IF RetrySucceeded(o)
                   THEN [r EXCEPT !.state = "returned", !.ret = "resp", !.resp = Len(r.attempts)]
                   ELSE [r EXCEPT !.i = @ + 1, !.slept = Append(@, RETRY_WAIT_TIME)]
  /\ UNCHANGED <<flags, cfg, pipelineVars, page, sorted>>

\* retryRequest's loop has run maxRetries times: the terminal error
RetryExhausted ==
  /\ rq.state = "retrying"
  /\ ~RetryLoopContinues(rq.i, cfg.Retries)
  /\ rq' = [rq EXCEPT !.state = "returned", !.ret = "err"]
  /\ UNCHANGED <<flags, cfg, pipelineVars, page, sorted>>

-----------------------------------------------------------------------------
(* Configuration.                                                          *)

\* the language codes the command line accepts
MangaLanguageEN == "en"
MangaLanguageDE == "de"

\* the volume filters explored: none, "1", "1_2" and "1/2"
VolumeFilters == {<<>>, <<"1">>, <<"1", "_", "2">>, <<"1", "/", "2">>}

\* the work identifier and the API URL are opaque: they are TLA+ strings, "" when empty
mangadexAPIURL == "https://api.mangadex.org"

\* the timeout getCmd configures, in seconds
CommandTimeout == 10

\* the Configs getCmd builds from its flags and New accepts
Configs(retries) ==
  [APIUrl : {mangadexAPIURL},
   Timeout : {CommandTimeout},
   MangaID : {"id"},
   MangaLanguage : {MangaLanguageEN, MangaLanguageDE},
   Volume : VolumeFilters,
   Retries : retries,
   Name : {<<"m">>},
   Output : {<<"o", "u", "t">>}]

\* the default of the --retries flag
DefaultRetries == 3

-----------------------------------------------------------------------------
(* The command and the constructor: getCmd and New.                        *)

\* the values of the flags when none is given on the command line
DefaultFlags ==
  [manga |-> "", output |-> <<>>, name |-> <<>>, language |-> "en", retries |-> DefaultRetries,
   volume |-> <<>>]

\* the command lines explored: each required flag given or not, a language
\* that is empty, supported or not, a volume filter or none
Flags ==
  [manga : {"", "id"},
   output : {<<>>, <<"o", "u", "t">>},
   name : {<<>>, <<"m">>},
   language : {"", "en", "de", "fr"},
   retries : {DefaultRetries},
   volume : {<<>>, <<"1">>}]

\* the command line a Config built by getCmd came from
FlagsOf(config) ==
  [manga |-> config.MangaID, output |-> config.Output, name |-> config.Name,
   language |-> config.MangaLanguage, retries |-> config.Retries, volume |-> config.Volume]

\* the zero value of Config
ZeroConfig ==
  [APIUrl |-> "", Timeout |-> 0, MangaID |-> "", MangaLanguage |-> "", Retries |-> 0,
   Output |-> <<>>, Volume |-> <<>>, Name |-> <<>>]

\* the Configs a caller of the package may hand to New
NewConfigs ==
  [APIUrl : {"", mangadexAPIURL},
   Timeout : {-1, 0, CommandTimeout},
   MangaID : {"", "id"},
   MangaLanguage : {"", MangaLanguageEN, MangaLanguageDE, "fr"},
   Retries : {DefaultRetries},
   Output : {<<>>, <<"o", "u", "t">>},
   Volume : {<<>>},
   Name : {<<>>, <<"m">>}]

\* the switch of getCmd over the --language flag: the language, "" when unsupported
SwitchLanguage(language) ==
  CASE language = "en" -> MangaLanguageEN
    [] language = "de" -> MangaLanguageDE
    [] OTHER -> ""

\* getCmd up to its call of New
GetCmd ==
  /\ pc = "cmd"
  /\ IF SwitchLanguage(flags.language) = ""
       THEN /\ pc' = "exit"
            /\ err' = "Unsupported language"
            /\ cfg' = cfg
       ELSE /\ cfg' = [APIUrl |-> mangadexAPIURL, Timeout |-> CommandTimeout,
                       MangaID |-> flags.manga, MangaLanguage |-> SwitchLanguage(flags.language),
                       Retries |-> flags.retries, Output |-> flags.output,
                       Volume |-> flags.volume, Name |-> flags.name]
            /\ pc' = "new"
            /\ err' = err
  /\ UNCHANGED <<flags, offset, allChapterIDs, listReqs, listPages, chapIdx, metas, fetches, volumeDirs,
                 tmpDirs, todo, archives, openFiles, rq, page, sorted>>

\* a constructor that does not test the name
NewPanicNoName(config) ==
  CASE config.APIUrl = "" -> "APIUrl cannot be empty"
    [] config.Timeout <= 0 -> "Timeout must be greater than 0"
    [] config.MangaID = "" -> "MangaID must be provided"
    [] config.MangaLanguage = "" -> "MangaLanguage cannot be empty"
    [] config.Output = <<>> -> "Output cannot be empty"
    [] OTHER -> ""

\* the panic of New for a Config, "" when it accepts it
NewPanic(config) ==
  IF config.APIUrl = "" THEN "APIUrl cannot be empty"
  ELSE IF config.Timeout <= 0 THEN "Timeout must be greater than 0"
  ELSE IF config.MangaID = "" THEN "MangaID must be provided"
  ELSE IF config.MangaLanguage = "" THEN "MangaLanguage cannot be empty"
  ELSE IF config.Output = <<>> THEN "Output cannot be empty"
  ELSE IF config.Name = <<>> THEN "Name cannot be empty"
  ELSE ""

\* New, and the call of DownloadManga on the client it returns
New ==
  /\ pc = "new"
  /\ IF NewPanic(cfg) # ""
       THEN pc' = "panic" /\ err' = NewPanic(cfg)
       ELSE pc' = "list" /\ err' = err
  /\ UNCHANGED <<flags, cfg, offset, allChapterIDs, listReqs, listPages, chapIdx, metas, fetches,
                 volumeDirs, tmpDirs, todo, archives, openFiles, rq, page, sorted>>

-----------------------------------------------------------------------------
(* The chapter lister: GetChaptersByMangaID.                               *)

\* page size of the listing endpoint
limit == 100

\* strconv.ParseFloat on the strings a chapter number can be (digits, '.', letters):
\* a decimal with at least one digit and at most one point parses, to num / 10^scale;
\* anything else is an error
ParseFloat(s) ==
  LET points == {i \in 1..Len(s) : s[i] = "."}
      digits == {i \in 1..Len(s) : \E d \in 1..10 : s[i] = Digit[d]}
      ok     == /\ digits # {}
                /\ Cardinality(points) <= 1
                /\ digits \cup points = 1..Len(s)
      val[i \in 0..Len(s)] ==
        IF i = 0 THEN 0
        ELSE IF i \in digits THEN 10 * val[i - 1] + (Ord[s[i]] - Ord["0"])
        ELSE val[i - 1]
  IN  [err   |-> ~ok,
       num   |-> IF ok THEN val[Len(s)] ELSE 0,
       scale |-> IF ok /\ points # {} THEN Len(s) - (CHOOSE i \in points : TRUE) ELSE 0]

RECURSIVE Pow10(_)
Pow10(k) == IF k = 0 THEN 1 ELSE 10 * Pow10(k - 1)

\* ci < cj on two parsed values
FloatLess(a, b) == a.num * Pow10(b.scale) < b.num * Pow10(a.scale)

\* a comparison of the chapter numbers as strings only
lessLexical(x, y) == LexLess(x.Chapter, y.Chapter)

\* the less function handed to sort.SliceStable, on two items of a page
less(x, y) ==
  LET ci == ParseFloat(x.Chapter)
      cj == ParseFloat(y.Chapter)
  IN  IF ~ci.err /\ ~cj.err THEN FloatLess(ci, cj)
      ELSE IF ~ci.err THEN TRUE
      ELSE IF ~cj.err THEN FALSE
      ELSE LexLess(x.Chapter, y.Chapter)

Swap(s, i, j) == [s EXCEPT ![i] = s[j], ![j] = s[i]]

\* sort.SliceStable on a slice of at most 20 items is one insertion sort:
\* for i := 1; i < n; i++ { for j := i; j > 0 && less(j, j-1); j-- { swap(j, j-1) } }
\* (larger slices are sorted in blocks of 20 and merged; less is a strict weak order
\* on these chapter numbers, so the stable result is the same)
\* (SiftDownUnstable: the inner loop of a sort that also moves an item past its equals)
RECURSIVE SiftDownUnstable(_, _)
SiftDownUnstable(s, j) ==
  IF j > 1 /\ ~less(s[j - 1], s[j]) THEN SiftDownUnstable(Swap(s, j, j - 1), j - 1) ELSE s
RECURSIVE SiftDown(_, _)
SiftDown(s, j) ==
  IF j > 1 /\ less(s[j], s[j - 1]) THEN SiftDown(Swap(s, j, j - 1), j - 1) ELSE s
RECURSIVE InsertionSort(_, _)
InsertionSort(s, i) ==
  IF i > Len(s) THEN s ELSE InsertionSort(SiftDown(s, i), i + 1)
SliceStable(s) == InsertionSort(s, 2)

\* the language DownloadManga hands to GetChaptersByMangaID
ListingLanguage == "en"

\* the items of a listing response: the server numbers them, page by page
PageItems(pageNo, chapters) ==
  [j \in 1..Len(chapters) |-> [ID |-> <<pageNo, j>>, Chapter |-> chapters[j]]]

\* sequences over S of length 0..n
SeqsUpTo(S, n) == UNION {[1..k -> S] : k \in 0..n}

\* a loop that goes on when the offset has just reached the total
ListingDoneStrict(nextOffset, total) == nextOffset > total

\* the test that ends GetChaptersByMangaID's loop, on the offset already advanced
ListingDone(nextOffset, total) == nextOffset >= total

\* one round of GetChaptersByMangaID's loop: the request, the sort of the page,
\* the append of its identifiers and the test of the offset against the total
ListPage(chapterLists, totals) ==
  /\ pc = "list"
  /\ listReqs' = Append(listReqs, [lang |-> ListingLanguage, volume |-> cfg.Volume,
                                   limit |-> limit, offset |-> offset])
  /\ \/ \* makeRequest or the decoding of the body fails
        /\ pc' = "failed"
        /\ err' = "failed to get chapter IDs"
        /\ UNCHANGED <<offset, allChapterIDs, listPages>>
     \/ \E chapters \in chapterLists, total \in totals :
          LET data == PageItems(Len(listPages) + 1, chapters)
              result == SliceStable(data)
          IN  /\ listPages' = Append(listPages, [Data |-> data, Total |-> total])
              /\ allChapterIDs' = allChapterIDs \o [j \in 1..Len(result) |-> result[j].ID]
              /\ offset' = offset + limit
              /\ pc' = IF ListingDone(offset + limit, total) THEN "group" ELSE "list"
              /\ err' = err
  /\ UNCHANGED <<flags, cfg, chapIdx, metas, fetches, volumeDirs, tmpDirs, todo, archives, openFiles, rq, page,
                 sorted>>

-----------------------------------------------------------------------------
(* The volume aggregator: groupChaptersByVolume and downloadChapterPages.  *)

\* width of the index that prefixes a downloaded page's file name ("%03d_%s")
PadWidth == 3

\* a closure that leaves the label as the server sent it
safeUnchanged(s) == s

\* the closure safe of groupChaptersByVolume
safe(s) == stringReplaceAllRune(s, "/", "_")

\* a skip test that forgets that an empty filter is no filter
SkipChapterNoEmptyTest(safeVolume) == safeVolume # cfg.Volume

\* a skip test that never skips
SkipChapterNever(safeVolume) == FALSE

\* the test that skips a chapter: a filter is configured and the label is another
SkipChapter(safeVolume) == cfg.Volume # <<>> /\ safeVolume # cfg.Volume

\* volumeDirs[safeVolume] = append(volumeDirs[safeVolume], tmpDir)
AppendDir(vd, safeVolume, tmpDir) ==
  IF safeVolume \in DOMAIN vd
    THEN [vd EXCEPT ![safeVolume] = Append(@, tmpDir)]
    ELSE vd @@ (safeVolume :> <<tmpDir>>)

\* the name downloadChapterPages gives page i (from 1) of a chapter inside its directory
PageFileName(i, file) == PadInt(PadWidth, i) \o <<"_">> \o file

\* the path os.MkdirTemp("", "mangadex") returns for the d-th directory it creates
DirPath(d) == <<"/", "t", "m", "p", "/", "m", "a", "n", "g", "a", "d", "e", "x">> \o Digits(d)

\* where a loop over n items may fail: at one of its first MaxFailAt items, or at its last
FailAt(n) == {k \in 1..n : k <= MaxFailAt \/ k = n}

NewDir(id, data, files) == [chapter |-> id, Data |-> data, files |-> files, removed |-> FALSE]

\* an error is logged and swallowed: the caller goes on
ReturnErrorSwallowed(e) == pc' = pc /\ err' = e

\* return fmt.Errorf(...): the error travels up to DownloadManga, which returns it
ReturnError(e) == pc' = "failed" /\ err' = e

\* the requests downloadChapterPages issues for a chapter when it gets as far as
\* page n: the at-home request, then one image request per page
PageFetches(id, n) ==
  <<[kind |-> "at-home", chapter |-> id, page |-> 0]>>
    \o [k \in 1..n |-> [kind |-> "image", chapter |-> id, page |-> k]]

\* one round of groupChaptersByVolume's loop
GroupChapter(labels, pageLists) ==
  /\ pc = "group"
  /\ chapIdx < Len(allChapterIDs)
  /\ \E id \in {allChapterIDs[chapIdx + 1]} :
     \E meta \in {<<[kind |-> "chapter", chapter |-> id, page |-> 0]>>} :
         \/ \* fetchChapterMetadata fails
            /\ ReturnError("failed to fetch chapter metadata")
            /\ fetches' = fetches \o meta
            /\ UNCHANGED <<chapIdx, metas, volumeDirs, tmpDirs>>
         \/ \E label \in labels :
              LET safeVolume == safe(label)
              IN  /\ metas' = Append(metas, [ID |-> id, Volume |-> label])
                  /\ IF SkipChapter(safeVolume)
                       THEN /\ chapIdx' = chapIdx + 1
                            /\ fetches' = fetches \o meta
                            /\ UNCHANGED <<pc, err, volumeDirs, tmpDirs>>
                       ELSE \/ \* getChapterImageData fails, or os.MkdirTemp after it
                               /\ \E e \in {"failed to fetch at-home API", "failed to create temp dir"} :
                                    ReturnError(e)
                               /\ fetches' = fetches \o meta \o PageFetches(id, 0)
                               /\ UNCHANGED <<chapIdx, volumeDirs, tmpDirs>>
                            \/ \* every page is downloaded
                               \E data \in pageLists :
                                 /\ tmpDirs' = Append(tmpDirs, NewDir(id, data, Len(data)))
                                 /\ volumeDirs' = AppendDir(volumeDirs, safeVolume, Len(tmpDirs) + 1)
                                 /\ chapIdx' = chapIdx + 1
                                 /\ fetches' = fetches \o meta \o PageFetches(id, Len(data))
                                 /\ UNCHANGED <<pc, err>>
                            \/ \* downloadImage fails at page k, with or without its file created
                               \E data \in pageLists : \E k \in FailAt(Len(data)), created \in {0, 1} :
                                 /\ tmpDirs' = Append(tmpDirs, NewDir(id, data, k - 1 + created))
                                 /\ ReturnError("failed to download image")
                                 /\ fetches' = fetches \o meta \o PageFetches(id, k)
                                 /\ UNCHANGED <<chapIdx, volumeDirs>>
  /\ UNCHANGED <<flags, cfg, offset, allChapterIDs, listReqs, listPages, todo, archives, openFiles, rq, page, sorted>>

\* groupChaptersByVolume returns the groups; DownloadManga starts to range over them
GroupDone ==
  /\ pc = "group"
  /\ chapIdx = Len(allChapterIDs)
  /\ pc' = "compress"
  /\ todo' = DOMAIN volumeDirs
  /\ UNCHANGED <<flags, cfg, err, offset, allChapterIDs, listReqs, listPages, chapIdx, metas, fetches,
                 volumeDirs, tmpDirs, archives, openFiles, rq, page, sorted>>

-----------------------------------------------------------------------------
(* The archive builder: compressVolumeToCBZ and package cbz.               *)

\* width of the index that prefixes an archive entry's name ("%03d_%s")
ZipPadWidth == 3

\* the names of the files present in the d-th temporary directory
DirNames(d) == {PageFileName(k, tmpDirs[d].Data[k]) : k \in 1..tmpDirs[d].files}

\* a walk whose callback does not test info.IsDir(): the directory itself is added
WalkWithRoot(d) ==
  LET names == SortStrings(DirNames(d))
  IN  <<[dir |-> d, name |-> <<>>]>> \o [i \in 1..Len(names) |-> [dir |-> d, name |-> names[i]]]

\* filepath.Walk over a chapter directory: the directory itself is no file; its
\* files come in the lexical order of their names
Walk(d) ==
  LET names == SortStrings(DirNames(d))
  IN  [i \in 1..Len(names) |-> [dir |-> d, name |-> names[i]]]

\* os.File.Name of a file opened by the walk: the path it was opened with
FileName(f) == Join(DirPath(f.dir), f.name)

\* cbz.files after compressVolumeToCBZ has walked every directory: Add appends
CbzFiles(dirs) == Concat([j \in 1..Len(dirs) |-> Walk(dirs[j])])

\* the name CBZ.Write gives the file at index i (from 0) of cbz.files, with options.Order
ZipName(i, f) == PadInt(ZipPadWidth, i) \o <<"_">> \o FileName(f)

\* the entries CBZ.Write creates from the first n files
CbzWrite(files, n) == [i \in 1..n |-> [name |-> ZipName(i - 1, files[i]), file |-> files[i]]]

\* an archive name that leaves the volume out
ArchiveFileNameNoVolume(name, volume) == name \o <<".", "c", "b", "z">>

\* fmt.Sprintf("%s-volume-%s.cbz", c.Config.Name, volume)
ArchiveFileName(name, volume) ==
  name \o <<"-", "v", "o", "l", "u", "m", "e", "-">> \o volume \o <<".", "c", "b", "z">>

OutPath(volume) == Join(cfg.Output, ArchiveFileName(cfg.Name, volume))

Range(s) == {s[i] : i \in 1..Len(s)}

\* a removal loop that stops one directory short
RemoveDirsButLast(td, dirs, n) ==
  [d \in 1..Len(td) |-> IF \E j \in 1..(n - 1) : dirs[j] = d THEN [td[d] EXCEPT !.removed = TRUE] ELSE td[d]]

\* a removal that takes every temporary directory of the run with it
RemoveDirsAll(td, dirs, n) == [d \in 1..Len(td) |-> [td[d] EXCEPT !.removed = TRUE]]

\* removeTempDirectories on the first n of dirs
RemoveDirs(td, dirs, n) ==
  [d \in 1..Len(td) |-> IF \E j \in 1..n : dirs[j] = d THEN [td[d] EXCEPT !.removed = TRUE] ELSE td[d]]

\* one round of DownloadManga's loop over the volume groups
CompressVolume ==
  /\ pc = "compress"
  /\ \E volume \in todo : \E files \in {CbzFiles(volumeDirs[volume])} :
       LET dirs == volumeDirs[volume]
           n == Len(files)
           failed(e) == ReturnError(e) /\ todo' = todo
       IN  \/ \* cbz.Open fails to create the output directory
              /\ failed("failed to open CBZ file")
              /\ UNCHANGED <<tmpDirs, archives, openFiles>>
           \/ \* the walk fails to open its k-th file
              \E k \in FailAt(n) :
                /\ failed("failed to open file")
                /\ openFiles' = openFiles \cup {files[i] : i \in 1..(k - 1)}
                /\ UNCHANGED <<tmpDirs, archives>>
           \/ \* CBZ.Write fails to create the output file
              /\ failed("failed to compress volume")
              /\ openFiles' = openFiles \cup Range(files)
              /\ UNCHANGED <<tmpDirs, archives>>
           \/ \* CBZ.Write fails at its k-th entry, or after the last one when it
              \* closes the archive
              \E k \in FailAt(n) \cup {n + 1} :
                /\ failed("failed to compress volume")
                /\ archives' = Append(archives, [path |-> OutPath(volume), volume |-> volume,
                                                 entries |-> CbzWrite(files, k - 1), complete |-> FALSE])
                /\ openFiles' = openFiles \cup {files[i] : i \in k..n}
                /\ UNCHANGED tmpDirs
           \/ \* the archive is written; removeTempDirectories fails at its k-th directory
              \E k \in FailAt(Len(dirs)) :
                /\ failed("failed to remove temp directories")
                /\ archives' = Append(archives, [path |-> OutPath(volume), volume |-> volume,
                                                 entries |-> CbzWrite(files, n), complete |-> TRUE])
                /\ tmpDirs' = RemoveDirs(tmpDirs, dirs, k - 1)
                /\ UNCHANGED openFiles
           \/ \* the archive is written and the directories are removed
              /\ archives' = Append(archives, [path |-> OutPath(volume), volume |-> volume,
                                               entries |-> CbzWrite(files, n), complete |-> TRUE])
              /\ tmpDirs' = RemoveDirs(tmpDirs, dirs, Len(dirs))
              /\ todo' = todo \ {volume}
              /\ UNCHANGED <<pc, err, openFiles>>
  /\ UNCHANGED <<flags, cfg, offset, allChapterIDs, listReqs, listPages, chapIdx, metas, fetches, volumeDirs, rq,
                 page, sorted>>

\* the loop over the groups is over: DownloadManga returns nil
Return ==
  /\ pc = "compress"
  /\ todo = {}
  /\ pc' = "done"
  /\ UNCHANGED <<flags, cfg, err, offset, allChapterIDs, listReqs, listPages, chapIdx, metas, fetches,
                 volumeDirs, tmpDirs, todo, archives, openFiles, rq, page, sorted>>

-----------------------------------------------------------------------------
(* The sort of one page, on its own.                                       *)

SortPage ==
  /\ ~sorted.done
  /\ sorted' = [done |-> TRUE, data |-> SliceStable(page)]
  /\ UNCHANGED <<flags, cfg, pipelineVars, rq, page>>

-----------------------------------------------------------------------------
(* Inputs and specifications.                                              *)

\* chapter numbers: empty, non-numeric, equal values written differently, and
\* values whose numeric and lexical orders differ
ChapterNumbers == {<<>>, <<"a">>, <<"1">>, <<"1", ".", "0">>, <<"9">>, <<"1", "0">>}

\* raw volume labels the server returns
VolumeLabels == {<<>>, <<"1">>, <<"1", "/", "2">>}

\* page file names the image server lists
FileNames == {<<"a", ".", "j", "p", "g">>, <<"b", ".", "p", "n", "g">>}

\* totals the server reports: zero, one page, just over one page, two pages
Totals == {0, limit, limit + 1, 2 * limit}

PipelineInit ==
  /\ pc = "list"
  /\ err = ""
  /\ offset = 0
  /\ allChapterIDs = <<>>
  /\ listReqs = <<>>
  /\ listPages = <<>>
  /\ chapIdx = 0
  /\ metas = <<>>
  /\ fetches = <<>>
  /\ volumeDirs = <<>>
  /\ tmpDirs = <<>>
  /\ todo = {}
  /\ archives = <<>>
  /\ openFiles = {}

Init ==
  /\ cfg \in Configs({DefaultRetries})
  /\ flags = FlagsOf(cfg)
  /\ PipelineInit
  /\ rq = RqIdle
  /\ page = <<>>
  /\ sorted = [done |-> FALSE, data |-> <<>>]

\* the pipeline: at most one chapter per listing page, pages of at most MaxPages files
Next ==
  \/ ListPage(SeqsUpTo({<<"1">>}, 1), {0, limit + 1})
  \/ GroupChapter(VolumeLabels, SeqsUpTo(FileNames, MaxPages))
  \/ GroupDone
  \/ CompressVolume
  \/ Return

Spec == Init /\ [][Next]_vars

\* the lister alone, on pages of mixed chapter numbers
NextList == ListPage(SeqsUpTo({<<"a">>, <<"9">>, <<"1", "0">>}, MaxPageItems), Totals)

SpecList == Init /\ [][NextList]_vars

\* totals of a server that reports the same total with every page: from none
\* to three full pages
ConstTotals == {0, 1, limit, limit + 1, 2 * limit, 2 * limit + 1, 3 * limit}

\* the lister against a server whose total is the one of its first response
NextTotal ==
  ListPage(SeqsUpTo({<<"9">>, <<"1", "0">>}, MaxPageItems),
           IF listPages = <<>> THEN ConstTotals ELSE {listPages[1].Total})

SpecTotal == Init /\ [][NextTotal]_vars

\* the sort alone, on every page of at most MaxSortItems chapter numbers
InitSort ==
  /\ cfg \in Configs({DefaultRetries})
  /\ flags = FlagsOf(cfg)
  /\ PipelineInit
  /\ rq = RqIdle
  /\ page \in {PageItems(1, cs) : cs \in SeqsUpTo(ChapterNumbers, MaxSortItems)}
  /\ sorted = [done |-> FALSE, data |-> <<>>]

SpecSort == InitSort /\ [][SortPage]_vars

\* one request call, for every retry count up to MaxRetries
InitReq ==
  /\ cfg \in Configs(0..MaxRetries)
  /\ flags = FlagsOf(cfg)
  /\ PipelineInit
  /\ rq = RqIdle
  /\ page = <<>>
  /\ sorted = [done |-> FALSE, data |-> <<>>]

NextReq == MakeRequest \/ RetryAttempt \/ RetryExhausted

SpecReq == InitReq /\ [][NextReq]_vars

\* the pipeline on long chapters: one volume, chapters of about 10^PadWidth pages
LongPageLists ==
  {[k \in 1..n |-> <<"a", ".", "j", "p", "g">>] :
     n \in (Pow10(PadWidth) - 1)..(Pow10(PadWidth) - 1 + MaxLongExtra)}

NextLong ==
  \/ ListPage({<<<<"1">>>>, <<<<"1">>, <<"2">>>>}, {1})
  \/ GroupChapter({<<"1">>}, LongPageLists)
  \/ GroupDone
  \/ CompressVolume
  \/ Return

SpecLong == Init /\ [][NextLong]_vars

\* the run from its start: a command line handed to getCmd, or a Config handed
\* to New by a caller of the package; then the first listing request
InitCfg ==
  /\ \/ pc = "cmd" /\ flags \in Flags /\ cfg = ZeroConfig
     \/ pc = "new" /\ flags = DefaultFlags /\ cfg \in NewConfigs
  /\ err = ""
  /\ offset = 0
  /\ allChapterIDs = <<>>
  /\ listReqs = <<>>
  /\ listPages = <<>>
  /\ chapIdx = 0
  /\ metas = <<>>
  /\ fetches = <<>>
  /\ volumeDirs = <<>>
  /\ tmpDirs = <<>>
  /\ todo = {}
  /\ archives = <<>>
  /\ openFiles = {}
  /\ rq = RqIdle
  /\ page = <<>>
  /\ sorted = [done |-> FALSE, data |-> <<>>]

NextCfg ==
  \/ GetCmd
  \/ New
  \/ ListPage(SeqsUpTo({<<"1">>}, 1), {0})
  \/ GroupChapter({<<"1">>}, {<<>>})
  \/ GroupDone
  \/ CompressVolume
  \/ Return

SpecCfg == InitCfg /\ [][NextCfg]_vars

-----------------------------------------------------------------------------
(* Properties.                                                             *)

\* filepath.Ext of a name without directory: from its last '.', empty without one
Ext(name) ==
  LET dots == {i \in 1..Len(name) : name[i] = "."}
  IN  IF dots = {} THEN <<>>
      ELSE SubSeq(name, CHOOSE i \in dots : \A j \in dots : j <= i, Len(name))

\* the archives whose write ran to its end
Complete == {i \in 1..Len(archives) : archives[i].complete}

\* the file that page k of the d-th directory's chapter was saved as
PageFile(d, k) == [dir |-> d, name |-> PageFileName(k, tmpDirs[d].Data[k])]

\* the pages of the chapters of a volume group, chapter after chapter, page after page
PagesInOrder(dirs) ==
  Concat([j \in 1..Len(dirs) |-> [k \in 1..Len(tmpDirs[dirs[j]].Data) |-> PageFile(dirs[j], k)]])

\* C1: the k-th entry of every archive is named by the 4-digit zero-padded k
\* followed by the extension of the original file, and by nothing else
C1_EntryNames ==
  \A a \in Complete : \A k \in 1..Len(archives[a].entries) :
    archives[a].entries[k].name = PadInt(4, k) \o Ext(archives[a].entries[k].file.name)

\* C2: the entries of every archive are the pages of its chapters in chapter
\* listing order, each chapter's pages in the order the server listed them
C2_PageOrder ==
  \A a \in Complete :
    \E pages \in {PagesInOrder(volumeDirs[archives[a].volume])} :
      /\ Len(archives[a].entries) = Len(pages)
      /\ \A i \in 1..Len(pages) : archives[a].entries[i].file = pages[i]

RECURSIVE Sum(_)
Sum(s) == IF s = <<>> THEN 0 ELSE Head(s) + Sum(Tail(s))

\* C3: an archive holds as many entries as its chapters have pages, every page
\* of every chapter once, and nothing else
C3_EntryCount ==
  \A a \in Complete :
    LET dirs == volumeDirs[archives[a].volume]
        entries == archives[a].entries
    IN  /\ Len(entries) = Sum([j \in 1..Len(dirs) |-> Len(tmpDirs[dirs[j]].Data)])
        /\ \A j \in 1..Len(dirs) : \A k \in 1..Len(tmpDirs[dirs[j]].Data) :
             Cardinality({i \in 1..Len(entries) : entries[i].file = PageFile(dirs[j], k)}) = 1
        /\ \A i \in 1..Len(entries) :
             \E j \in 1..Len(dirs) : \E k \in 1..Len(tmpDirs[dirs[j]].Data) :
               entries[i].file = PageFile(dirs[j], k)

C3_Witness ==
  \E a \in Complete :
    /\ Len(volumeDirs[archives[a].volume]) = 2
    /\ Len(archives[a].entries) >= 3

\* the normalized label of a raw volume label
Normalized(label) == [i \in 1..Len(label) |-> IF label[i] = "/" THEN "_" ELSE label[i]]

\* the chapters a temporary directory was filled for, and their normalized labels
RetainedIDs == {tmpDirs[d].chapter : d \in 1..Len(tmpDirs)}
RetainedLabels == {Normalized(metas[i].Volume) : i \in {j \in 1..Len(metas) : metas[j].ID \in RetainedIDs}}

\* {output}/{base}-volume-{label}.cbz
ExpectedPath(label) ==
  cfg.Output \o <<"/">> \o cfg.Name \o <<"-", "v", "o", "l", "u", "m", "e", "-">> \o label
    \o <<".", "c", "b", "z">>

\* C4: a run that returned success wrote one archive per normalized label of
\* the retained chapters, under that label's name, and no other archive
C4_ArchivePerLabel ==
  pc = "done" =>
    /\ {archives[i].path : i \in 1..Len(archives)} = {ExpectedPath(l) : l \in RetainedLabels}
    /\ Len(archives) = Cardinality(RetainedLabels)
    /\ \A i \in 1..Len(archives) : archives[i].complete

C4_Witness ==
  /\ pc = "done"
  /\ Len(metas) = 2
  /\ Len(archives) = 2

\* the chapters appended to a volume group
GroupedIDs == {tmpDirs[d].chapter : d \in UNION {Range(volumeDirs[v]) : v \in DOMAIN volumeDirs}}

\* C5: when aggregation has returned its groups, the chapters in them are the
\* chapters whose normalized label equals the filter, and all chapters without a filter
C5_FilterExact ==
  pc \in {"compress", "done"} =>
    GroupedIDs = {allChapterIDs[i] : i \in {j \in 1..Len(allChapterIDs) :
                     cfg.Volume = <<>> \/ Normalized(metas[j].Volume) = cfg.Volume}}

C5_Witness ==
  /\ pc = "compress"
  /\ cfg.Volume = <<"1", "_", "2">>
  /\ Len(metas) = 2
  /\ metas[1].Volume = <<"1">>
  /\ metas[2].Volume = <<"1", "/", "2">>
  /\ Cardinality(GroupedIDs) = 1

\* an attempt that came back with a response of status 200
Succeeded(o) == ~o.err /\ o.status = 200
RateLimited(o) == ~o.err /\ o.status = 429

\* C6: after a first attempt that is rate limited, at most maxRetries more
\* attempts are made; a successful one is the last and is what the call returns;
\* the call returns an error only after exactly maxRetries failed ones
C6_RetryBound ==
  (rq.attempts # <<>> /\ RateLimited(rq.attempts[1])) =>
    /\ Len(rq.attempts) - 1 <= cfg.Retries
    /\ \A k \in 2..Len(rq.attempts) :
         Succeeded(rq.attempts[k]) =>
           k = Len(rq.attempts) /\ rq.state = "returned" /\ rq.ret = "resp" /\ rq.resp = k
    /\ (rq.state = "returned" /\ rq.ret = "resp") => Succeeded(rq.attempts[rq.resp])
    /\ (rq.state = "returned" /\ rq.ret = "err") =>
         /\ Len(rq.attempts) - 1 = cfg.Retries
         /\ \A k \in 2..Len(rq.attempts) : ~Succeeded(rq.attempts[k])
    /\ rq.state = "returned" => rq.ret \in {"resp", "err"}

C6_Witness ==
  /\ rq.state = "returned"
  /\ rq.ret = "resp"
  /\ Len(rq.attempts) = 3
  /\ RateLimited(rq.attempts[1])
  /\ cfg.Retries = 3

\* C7: an attempt that fails otherwise than by a rate limit is the last attempt
\* of its call, and the call returns an error
C7_OnlyRateLimitRetried ==
  \A k \in 1..Len(rq.attempts) :
    (~Succeeded(rq.attempts[k]) /\ ~RateLimited(rq.attempts[k])) =>
      /\ k = Len(rq.attempts)
      /\ rq.state = "returned" => rq.ret = "err"

\* C8: every listing request carries the language of the configuration
C8_ListingLanguage ==
  \A i \in 1..Len(listReqs) : listReqs[i].lang = cfg.MangaLanguage

\* the item of a listed identifier, as the server sent it
ItemOf(id) == listPages[id[1]].Data[id[2]]
Numeric(item) == ~ParseFloat(item.Chapter).err

\* x has to come before y: a smaller number, or a number against none
Precedes(x, y) ==
  \/ Numeric(x) /\ Numeric(y) /\ FloatLess(ParseFloat(x.Chapter), ParseFloat(y.Chapter))
  \/ Numeric(x) /\ ~Numeric(y)

SameNumber(x, y) ==
  /\ Numeric(x) /\ Numeric(y)
  /\ ~FloatLess(ParseFloat(x.Chapter), ParseFloat(y.Chapter))
  /\ ~FloatLess(ParseFloat(y.Chapter), ParseFloat(x.Chapter))

\* C9 as stated: the sequence the lister returns is in ascending chapter-number
\* order over the whole work, ties in server order
C9_GlobalOrder ==
  pc = "group" =>
    \A a, b \in 1..Len(allChapterIDs) :
      a < b => ~Precedes(ItemOf(allChapterIDs[b]), ItemOf(allChapterIDs[a]))

\* C9 as amended: the sequence is the listing pages' identifiers, page after page
\* in request order, each page's own identifiers in ascending chapter-number
\* order with ties in server order; it is ascending as a whole when one page was listed
C9_PerPageOrder ==
  /\ Len(allChapterIDs) = Sum([p \in 1..Len(listPages) |-> Len(listPages[p].Data)])
  /\ \A p \in 1..Len(listPages) : \A j \in 1..Len(listPages[p].Data) :
       \E a \in 1..Len(allChapterIDs) : allChapterIDs[a] = <<p, j>>
  /\ \A a, b \in 1..Len(allChapterIDs) :
       a < b =>
         /\ allChapterIDs[a][1] <= allChapterIDs[b][1]
         /\ allChapterIDs[a][1] = allChapterIDs[b][1] =>
              /\ ~Precedes(ItemOf(allChapterIDs[b]), ItemOf(allChapterIDs[a]))
              /\ SameNumber(ItemOf(allChapterIDs[a]), ItemOf(allChapterIDs[b])) =>
                   allChapterIDs[a][2] < allChapterIDs[b][2]
  /\ (pc = "group" /\ Len(listPages) = 1) =>
       \A a, b \in 1..Len(allChapterIDs) :
         a < b => ~Precedes(ItemOf(allChapterIDs[b]), ItemOf(allChapterIDs[a]))

C9_Witness ==
  /\ pc = "group"
  /\ Len(listPages) = 2
  /\ Len(allChapterIDs) = 4
  /\ \E a, b \in 1..4 : a < b /\ Precedes(ItemOf(allChapterIDs[b]), ItemOf(allChapterIDs[a]))
  /\ \E j \in 1..2 : allChapterIDs[j] # <<1, j>>

\* C10: in a sorted page every numeric chapter number precedes every other one,
\* the numeric ones ascend, and equal numbers keep their server order
C10_PageSorted ==
  sorted.done =>
    /\ Len(sorted.data) = Len(page)
    /\ \A j \in 1..Len(page) : \E a \in 1..Len(sorted.data) : sorted.data[a] = page[j]
    /\ \A a, b \in 1..Len(sorted.data) :
         a < b =>
           /\ Numeric(sorted.data[b]) => Numeric(sorted.data[a])
           /\ (Numeric(sorted.data[a]) /\ Numeric(sorted.data[b])) =>
                ~FloatLess(ParseFloat(sorted.data[b].Chapter), ParseFloat(sorted.data[a].Chapter))
           /\ SameNumber(sorted.data[a], sorted.data[b]) =>
                sorted.data[a].ID[2] < sorted.data[b].ID[2]

C10_Witness ==
  /\ sorted.done
  /\ Len(page) = 3
  /\ ~Numeric(page[1])
  /\ page[2].Chapter = <<"1", ".", "0">>
  /\ page[3].Chapter = <<"1">>
  /\ sorted.data # page

\* the temporary directories that are still on disk
Remaining == {d \in 1..Len(tmpDirs) : ~tmpDirs[d].removed}

\* C11: when the run has returned success, none of the temporary directories
\* it created remains
C11_NoDirRemains == pc = "done" => Remaining = {}

C11_Witness ==
  /\ pc = "done"
  /\ Len(tmpDirs) = 2
  /\ Cardinality(DOMAIN volumeDirs) = 2
  /\ Len(archives) = 2

\* the errors groupChaptersByVolume returns
GroupErrors ==
  {"failed to fetch chapter metadata", "failed to fetch at-home API", "failed to create temp dir",
   "failed to download image"}

\* C12: when the metadata or the pages of a chapter cannot be fetched, the run
\* has failed at that chapter: the last request is one for it, no request was
\* issued for a later chapter of the list, and no archive has been written
C12_AggregationStops ==
  err \in GroupErrors =>
    /\ pc = "failed"
    /\ archives = <<>>
    /\ fetches # <<>>
    /\ fetches[Len(fetches)].chapter = allChapterIDs[chapIdx + 1]
    /\ \A i \in 1..Len(fetches) : \E j \in 1..(chapIdx + 1) : fetches[i].chapter = allChapterIDs[j]

\* the second chapter fails after the first one's volume was downloaded in full
C12_Witness ==
  /\ err = "failed to download image"
  /\ Len(allChapterIDs) = 2
  /\ chapIdx = 1
  /\ DOMAIN volumeDirs = {<<"1">>}
  /\ metas[2].Volume = <<"1", "/", "2">>
  /\ Len(tmpDirs) = 2

\* the volumes an archive file exists for, complete or not
Archived == {archives[i].volume : i \in 1..Len(archives)}

\* C13: when the removal of a volume's directories fails, the run has failed,
\* the archive of that volume is complete and in place, and every other volume
\* the loop had not visited has no archive and all its directories
C13_RemoveFailureTerminal ==
  err = "failed to remove temp directories" =>
    /\ pc = "failed"
    /\ archives # <<>>
    /\ archives[Len(archives)].complete
    /\ archives[Len(archives)].volume \in todo
    /\ \A w \in todo \ {archives[Len(archives)].volume} :
         /\ w \notin Archived
         /\ \A d \in Range(volumeDirs[w]) : d \in Remaining

C13_Witness ==
  /\ err = "failed to remove temp directories"
  /\ Cardinality(todo) = 2
  /\ Len(archives) = 1
  /\ Len(tmpDirs) = 2

\* no request of any kind was issued, no temporary directory and no archive created
NothingIssued ==
  /\ listReqs = <<>>
  /\ fetches = <<>>
  /\ rq.attempts = <<>>
  /\ tmpDirs = <<>>
  /\ archives = <<>>

\* a Config that misses a required field or has no positive timeout
ConfigError(config) ==
  \/ config.MangaID = ""
  \/ config.Output = <<>>
  \/ config.Name = <<>>
  \/ config.MangaLanguage = ""
  \/ config.Timeout <= 0

\* C14: a command line whose language is neither "en" nor "de" ends the run in
\* getCmd, and a Config without work identifier, output directory, base name or
\* language, or without a positive timeout, ends it in New; in both cases no
\* request was issued and no temporary directory or archive was created
C14_ConfigErrorFatal ==
  /\ flags.language \notin {"en", "de"} => (pc \in {"cmd", "exit"} /\ NothingIssued)
  /\ (pc \notin {"cmd", "exit"} /\ ConfigError(cfg)) => (pc \in {"new", "panic"} /\ NothingIssued)

\* a command line without --name: New has panicked on the Config getCmd built
C14_Witness ==
  /\ pc = "panic"
  /\ flags.manga = "id"
  /\ flags.language = "de"
  /\ cfg.Name = <<>>
  /\ cfg.Timeout = CommandTimeout
  /\ NothingIssued

HasSlash(s) == \E i \in 1..Len(s) : s[i] = "/"

\* the label the server sent for the chapter of the d-th temporary directory
LabelOfDir(d) == (CHOOSE m \in Range(metas) : m.ID = tmpDirs[d].chapter).Volume

\* the file name component of an archive's path: what follows the output directory
FileComponent(path) == SubSeq(path, Len(cfg.Output) + 2, Len(path))

\* C15: a chapter whose label contains '/' is compared with the filter, grouped
\* and archived under its label with every '/' replaced by '_' and nothing else
\* changed; no group key and no archive file name contains '/'
C15_LabelNormalized ==
  /\ \A i \in 1..chapIdx :
       HasSlash(metas[i].Volume) =>
         (metas[i].ID \in GroupedIDs <=>
            (cfg.Volume = <<>> \/ Normalized(metas[i].Volume) = cfg.Volume))
  /\ \A v \in DOMAIN volumeDirs :
       /\ ~HasSlash(v)
       /\ \A d \in Range(volumeDirs[v]) : v = Normalized(LabelOfDir(d))
  /\ \A a \in 1..Len(archives) :
       /\ ~HasSlash(FileComponent(archives[a].path))
       /\ archives[a].path = ExpectedPath(archives[a].volume)
       /\ \A d \in Range(volumeDirs[archives[a].volume]) :
            archives[a].path = ExpectedPath(Normalized(LabelOfDir(d)))

C15_Witness ==
  /\ pc = "done"
  /\ cfg.Volume = <<"1", "_", "2">>
  /\ Len(metas) = 2
  /\ metas[1].Volume = <<"1", "/", "2">>
  /\ metas[2].Volume = <<"1", "/", "2">>
  /\ Len(archives) = 1
  /\ Len(volumeDirs[<<"1", "_", "2">>]) = 2

\* max(1, ceil(T / 100))
RequestsFor(T) == IF T <= 0 THEN 1 ELSE (T + 99) \div 100

\* C16: against a server that reports the same total T with every page and
\* answers every request, the k-th listing request has page size 100 and offset
\* 100 * (k - 1); no request has an offset of T or more but the first when T = 0;
\* the loop goes on while fewer than max(1, ceil(T / 100)) requests were issued
\* and ends with exactly that many; the identifiers collected are those of the
\* pages received, page after page in request order
C16_ListingRequests ==
  ((\A p \in 1..Len(listPages) : listPages[p].Total = listPages[1].Total) /\ pc # "failed") =>
    /\ Len(listReqs) = Len(listPages)
    /\ \A k \in 1..Len(listReqs) : listReqs[k].limit = 100 /\ listReqs[k].offset = 100 * (k - 1)
    /\ listPages # <<>> =>
         /\ \A k \in 1..Len(listReqs) :
              listReqs[k].offset >= listPages[1].Total => (k = 1 /\ listPages[1].Total = 0)
         /\ pc = "list" => Len(listReqs) < RequestsFor(listPages[1].Total)
         /\ pc = "group" => Len(listReqs) = RequestsFor(listPages[1].Total)
    /\ pc \in {"list", "group"}
    /\ Len(allChapterIDs) = Sum([p \in 1..Len(listPages) |-> Len(listPages[p].Data)])
    /\ \A p \in 1..Len(listPages) : \A j \in 1..Len(listPages[p].Data) :
         \E a \in 1..Len(allChapterIDs) : allChapterIDs[a] = <<p, j>>
    /\ \A a, b \in 1..Len(allChapterIDs) : a < b => allChapterIDs[a][1] <= allChapterIDs[b][1]

C16_Witness ==
  /\ pc = "group"
  /\ Len(listReqs) = 3
  /\ listPages[1].Total = 2 * limit + 1
  /\ listPages[3].Total = 2 * limit + 1
  /\ Len(allChapterIDs) = 5

\* C17: a temporary directory that has been deleted belongs to a volume whose
\* archive was written to its end and closed; the directories of a volume
\* whose archive is missing or incomplete are all in place
C17_RemovedAfterArchive ==
  /\ \A d \in 1..Len(tmpDirs) :
       tmpDirs[d].removed => \E a \in Complete : d \in Range(volumeDirs[archives[a].volume])
  /\ \A a \in 1..Len(archives) :
       ~archives[a].complete => \A d \in Range(volumeDirs[archives[a].volume]) : d \in Remaining
  /\ err \in {"failed to open CBZ file", "failed to open file", "failed to compress volume"} =>
       \A v \in todo : \A d \in Range(volumeDirs[v]) : d \in Remaining

\* the second volume's archive fails after the first volume was archived and cleaned
C17_Witness ==
  /\ err = "failed to compress volume"
  /\ Len(archives) = 2
  /\ archives[1].complete
  /\ ~archives[2].complete
  /\ Len(archives[2].entries) = 1
  /\ tmpDirs[1].removed # tmpDirs[2].removed

\* the chapters, by their position in the list, that a configured filter does not match
Unmatched == {i \in 1..Len(metas) : cfg.Volume # <<>> /\ Normalized(metas[i].Volume) # cfg.Volume}

\* for a chapter that the filter does not match, the only request is the one
\* for its metadata, no temporary directory exists, no group holds anything of
\* it, and the loop has gone past it without an error
SkippedHaveNoEffect ==
  \A i \in Unmatched :
    /\ \A k \in 1..Len(fetches) : fetches[k].chapter = metas[i].ID => fetches[k].kind = "chapter"
    /\ Cardinality({k \in 1..Len(fetches) : fetches[k].chapter = metas[i].ID}) = 1
    /\ metas[i].ID \notin RetainedIDs
    /\ metas[i].ID \notin GroupedIDs
    /\ chapIdx >= i
    /\ (i = Len(metas) /\ pc = "group") => err = ""

\* C18: a step that handles a chapter the filter does not match changes nothing
\* but the position of the loop and the record of the metadata request: the
\* groups, the temporary directories and the position of the run are as before,
\* and no request for the chapter's pages is ever issued
C18_SkipWithoutEffect ==
  /\ []SkippedHaveNoEffect
  /\ [][(pc = "group" /\ Len(metas') = Len(metas) + 1 /\ Len(metas') \in Unmatched')
         => /\ chapIdx' = chapIdx + 1
            /\ fetches' = Append(fetches, [kind |-> "chapter", chapter |-> allChapterIDs[chapIdx + 1],
                                           page |-> 0])
            /\ UNCHANGED <<pc, err, volumeDirs, tmpDirs, archives, openFiles, todo>>]_vars

\* the first chapter is skipped and the second one, which matches, is grouped
C18_Witness ==
  /\ pc = "compress"
  /\ cfg.Volume = <<"1">>
  /\ Len(metas) = 2
  /\ metas[1].Volume = <<"1", "/", "2">>
  /\ metas[2].Volume = <<"1">>
  /\ Len(tmpDirs) = 1
  /\ Len(fetches) >= 4

\* C19: when aggregation has returned its groups, the chapters in them are
\* those whose normalized label equals the normalized filter (all of them
\* without a filter), so that a filter with a '/' retains the chapters whose
\* label is the filter itself
C19_FilterNormalized ==
  pc \in {"compress", "done"} =>
    GroupedIDs = {allChapterIDs[i] : i \in {j \in 1..Len(allChapterIDs) :
                     cfg.Volume = <<>> \/ Normalized(metas[j].Volume) = Normalized(cfg.Volume)}}

\* the errors of a failed download, metadata fetch or archive build
RunErrors ==
  GroupErrors \cup {"failed to open CBZ file", "failed to open file", "failed to compress volume"}

\* C20: when the run has failed with an error of a download or of an archive
\* build, the removal of every temporary directory created so far has been
\* attempted; the only removal the run ever attempts is removeTempDirectories,
\* whose failure is another error, so in these runs attempted means removed
C20_CleanupOnFailure == (pc = "failed" /\ err \in RunErrors) => Remaining = {}

\* C21: no page file that compressVolumeToCBZ opened is still open once the
\* build has returned, whether it returned nil or an error
C21_FilesClosed == openFiles = {}

====
